---- MODULE Spec2Model ----
(***************************************************************************)
(* A model of grr/lib/rdfvalues/flows.py: the task-id allocator            *)
(* (GrrMessage.GenerateTaskID and the legacy Task minting, which share     *)
(* Task.lock and Task.next_id_base) and the flow state container           *)
(* (FlowState over a DataObject, persisted with pickle).                   *)
(*                                                                         *)
(* Python integers are unbounded.  An integer is held here as four limbs,  *)
(* least significant first: three 16-bit limbs and a signed top limb that  *)
(* carries every bit from bit 48 upwards (two's complement, so a negative  *)
(* number has a negative top limb).  All bit operations are computed on    *)
(* the limbs, with the widths and masks of the source.                     *)
(***************************************************************************)
EXTENDS Integers, Sequences, FiniteSets, TLC

\* ------------------------------------------------------------ bounds
\* The number of calls a behaviour of the allocator may start.
MaxCalls == 2
\* The number of times the environment may advance the wall clock.
MaxTicks == 2
\* The number of long runs of calls by other producers a behaviour may hold.
MaxRuns == 1

\* ------------------------------------------------- Python integers
Limb == 2^16

RECURSIVE BitOr(_, _)
\* a | b on Python integers (two's complement, unbounded)
BitOr(a, b) ==
    IF a = 0 THEN b
    ELSE IF b = 0 THEN a
    ELSE IF a = -1 \/ b = -1 THEN -1
    ELSE 2 * BitOr(a \div 2, b \div 2) + (IF a % 2 = 1 \/ b % 2 = 1 THEN 1 ELSE 0)

RECURSIVE BitAnd(_, _)
\* a & b on Python integers (two's complement, unbounded)
BitAnd(a, b) ==
    IF a = 0 \/ b = 0 THEN 0
    ELSE IF a = -1 THEN b
    ELSE IF b = -1 THEN a
    ELSE 2 * BitAnd(a \div 2, b \div 2) + (IF a % 2 = 1 /\ b % 2 = 1 THEN 1 ELSE 0)

\* Carry propagation: the limbs of the number l[1] + l[2]*2^16 + l[3]*2^32 + l[4]*2^48.
Norm(l) ==
    LET c1 == l[1] \div Limb
        c2 == (l[2] + c1) \div Limb
        c3 == (l[3] + c2) \div Limb
    IN  << l[1] % Limb, (l[2] + c1) % Limb, (l[3] + c2) % Limb, l[4] + c3 >>

\* The Python integer n, for |n| < 2^31.
Long(n) == Norm(<< n, 0, 0, 0 >>)

LongAdd(a, b) == Norm([i \in 1..4 |-> a[i] + b[i]])
LongOr(a, b)  == [i \in 1..4 |-> BitOr(a[i], b[i])]
LongAnd(a, b) == [i \in 1..4 |-> BitAnd(a[i], b[i])]

\* a << n, for 0 <= n < 64
LongShl(a, n) ==
    LET q == n \div 16
        m == Norm([i \in 1..4 |-> a[i] * 2^(n % 16)])
    IN  CASE q = 0 -> m
          [] q = 1 -> << 0, m[1], m[2], m[3] + m[4] * Limb >>
          [] q = 2 -> << 0, 0, m[1], m[2] + (m[3] + m[4] * Limb) * Limb >>
          [] q = 3 -> << 0, 0, 0, m[1] + (m[2] + (m[3] + m[4] * Limb) * Limb) * Limb >>

\* a < b
LongLess(a, b) ==
    \/ a[4] < b[4]
    \/ a[4] = b[4] /\ a[3] < b[3]
    \/ a[4] = b[4] /\ a[3] = b[3] /\ a[2] < b[2]
    \/ a[4] = b[4] /\ a[3] = b[3] /\ a[2] = b[2] /\ a[1] < b[1]

\* 0xFFFFFFFF and 0x1FFFFFFF
Mask32 == << Limb - 1, Limb - 1, 0, 0 >>
Mask29 == << Limb - 1, 2^13 - 1, 0, 0 >>

\* ------------------------------------------------ program constants
\* GrrMessage.max_priority
max_priority == 7

\* ------------------------------------------------------------ state
VARIABLES
    next_id_base,   \* Task.next_id_base, the counter every producer shares
    lock,           \* Task.lock: 0 when free, else the producer holding it
    clock,          \* long(time.time() * 1000), the wall clock in milliseconds
    ticks,          \* how often the environment has advanced the clock
    th,             \* per producer: its position and the locals of its call
    calls,          \* the number of calls started
    minted,         \* the completed calls, in order of completion
    wraps,          \* how often the counter has wrapped around so far
    runs,           \* how many long runs of other producers' calls have passed
    commits         \* the writes of the counter by the producers, in their order;
                    \* waited: the clock had reached the end of the writer's sleep

allocVars == << next_id_base, lock, clock, ticks, th, calls, minted, wraps, runs,
               commits >>

VARIABLES
    data,           \* FlowState.data: the DataObject, a dict, as its hash table
    inst,           \* the FlowState's own __dict__, for the names that are members
    last,           \* the last call on the FlowState: what it was given, what it
                    \* returned or raised and, for Register, what the field held
                    \* before (old) and whether Set had written that (held)
    stored,         \* per name, the value Register or Set last stored in the mapping
    written,        \* per name, whether that value was stored by Set
    given,          \* per name, the value of the last Register, or Set that did
                    \* not raise, called with that name
    fresh,          \* no Register and no Set has been called yet
    blob,           \* the string the last SerializeToString returned
    copy            \* another FlowState's data, after ParseFromString(blob)

flowVars == << data, inst, last, stored, written, given, fresh, blob, copy >>
VARIABLES
    message,        \* a GrrMessage: its fields and how far its constructor has come
    mlast,          \* the last call on it: what it was given and what came of it
    assigned        \* the value the payload setter last stored, if any

msgVars == << message, mlast, assigned >>
vars == << allocVars, flowVars, msgVars >>

\* ------------------------------------------------- DataObject (dict)
\* The field names of the model: the reserved context entry, a name that is
\* also a member of class FlowState, and an ordinary field.
Names == {"context", "data_store_type", "client_id"}

\* The names among them that getattr(FlowState, name, -1) finds (line 173).
ClassMembers == {"data_store_type"}

\* The values stored: None (Register's default) and two others.
Values == {"None", "1", "2"}

\* The default passed to get: a value never stored.
Defaults == {"0"}

\* bool(v)
Truthy(v) == v \notin {"None", "0"}

\* CPython 2.7 hashes a string key to a 64-bit number (64-bit build, no hash
\* randomization); this is that number for each name, in base 32, least
\* significant digit first.
StringHash(name) ==
    CASE name = "context"         -> << 22, 7, 29, 22, 23, 8, 3, 10, 26, 1, 12, 31, 12 >>
      [] name = "data_store_type" -> << 22, 10, 24, 17, 1, 0, 22, 29, 15, 16, 28, 9, 12 >>
      [] name = "client_id"       -> << 22, 26, 19, 25, 15, 24, 19, 3, 0, 31, 27, 14, 15 >>

\* A dict of up to five entries is a table of eight slots; an unused slot
\* holds no key.  Nothing in this file deletes an entry.
Slots == 0 .. 2^3 - 1
NoKey == "<NULL>"
NoEntry == [key |-> NoKey, value |-> NoKey]

\* DataObject(): line 177
NewDict == [s \in Slots |-> NoEntry]

\* perturb, after k - 1 shifts by PERTURB_SHIFT = 5, as far as the slot depends on it
Perturb(name, k) == IF k <= Len(StringHash(name)) THEN StringHash(name)[k] ELSE 0

RECURSIVE Lookup(_, _, _, _)
\* lookdict: from slot i, the first slot that is unused or holds the key;
\* the next slot probed is (5 * i + perturb + 1) & mask
Lookup(d, name, i, k) ==
    IF d[i].key = NoKey \/ d[i].key = name THEN i
    ELSE Lookup(d, name, (5 * i + Perturb(name, k) + 1) % 2^3, k + 1)

SlotOf(d, name) == Lookup(d, name, StringHash(name)[1] % 2^3, 1)

\* d[name] = value
DictSetItem(d, name, value) ==
    [d EXCEPT ![SlotOf(d, name)] = [key |-> name, value |-> value]]

\* name in d
DictHas(d, name) == d[SlotOf(d, name)].key = name

\* d.get(name, default)
DictGet(d, name, default) ==
    IF DictHas(d, name) THEN d[SlotOf(d, name)].value ELSE default

\* len(d)
DictLen(d) == Cardinality({s \in Slots : d[s].key # NoKey})

RECURSIVE ItemsFrom(_, _)
ItemsFrom(d, s) ==
    IF s \notin Slots THEN << >>
    ELSE (IF d[s].key = NoKey THEN << >> ELSE << d[s] >>) \o ItemsFrom(d, s + 1)

\* d.items(): the entries in the order of their slots
DictItems(d) == ItemsFrom(d, 0)

RECURSIVE InsertAll(_, _)
InsertAll(d, items) ==
    IF items = << >> THEN d
    ELSE InsertAll(DictSetItem(d, Head(items).key, Head(items).value), Tail(items))

\* a new dict filled from a sequence of entries, in their order
DictFromItems(items) == InsertAll(NewDict, items)

\* dict(d), dict.__init__(obj, d): a new dict filled from d in d's slot order
DictCopy(d) == DictFromItems(DictItems(d))

\* --------------------------------------------------------- pickle
RECURSIVE Flatten(_)
Flatten(items) ==
    IF items = << >> THEN << >>
    ELSE << Head(items).key, Head(items).value >> \o Flatten(Tail(items))

RECURSIVE Pairs(_)
Pairs(tokens) ==
    IF Len(tokens) < 2 THEN << >>
    ELSE << [key |-> tokens[1], value |-> tokens[2]] >> \o Pairs(Tail(Tail(tokens)))

\* pickle.dumps(d) of a DataObject: the class has no reduction of its own, so
\* protocol 0 writes copy_reg._reconstructor, (DataObject, dict, dict(d)) and
\* the items of that plain dict in its iteration order, then STOP.
Dumps(d) == << "DataObject" >> \o Flatten(DictItems(DictCopy(d))) \o << "." >>

\* Whether pickle.loads(string) finds a complete pickle.
WellFormed(string) ==
    /\ Len(string) >= 2
    /\ string[1] = "DataObject"
    /\ string[Len(string)] = "."
    /\ Len(string) % 2 = 0

\* pickle.loads(string): the plain dict is filled item by item, then
\* _reconstructor makes the DataObject from it (dict.__init__(obj, state)).
Loads(string) ==
    DictCopy(DictFromItems(Pairs(SubSeq(string, 2, Len(string) - 1))))

\* ------------------------------------------------------- FlowState
Unset == "<unset>"
NoBlob == << >>

\* A Register that leaves a field that is already there alone.
FlowRegisterOnce(d, item, value) ==
    IF DictHas(d, item) THEN d ELSE DictSetItem(d, item, value)

\* lines 198-199 and 131-135: setattr(self.data, item, value), self[item] = value
FlowRegister(d, item, value) == DictSetItem(d, item, value)

\* A __setattr__ without the test of line 206: any name that is not a member
\* goes to the mapping.
FlowSetAttrUnchecked(d, dict_, item, value) ==
    IF item \in ClassMembers \/ dict_[item] # Unset
    THEN [data |-> d, inst |-> [dict_ EXCEPT ![item] = value], took |-> "member"]
    ELSE [data |-> DictSetItem(d, item, value), inst |-> dict_, took |-> "data"]

\* lines 201-210: FlowState.__setattr__
FlowSetAttr(d, dict_, item, value) ==
    IF item \in ClassMembers \/ dict_[item] # Unset
    THEN [data |-> d, inst |-> [dict_ EXCEPT ![item] = value], took |-> "member"]
    ELSE IF DictHas(d, item)
    THEN [data |-> DictSetItem(d, item, value), inst |-> dict_, took |-> "data"]
    ELSE [data |-> d, inst |-> dict_, took |-> "AttributeError"]

\* An Empty that tests len(self.data) <= 1.
FlowEmptyAtMostOne(d) ==
    IF DictLen(d) <= 1
    THEN IF DictHas(d, "context")
         THEN (IF Truthy(DictGet(d, "context", "None")) THEN "False" ELSE "True")
         ELSE "AttributeError"
    ELSE "False"

\* lines 189-190 and 137-141: len(self.data) == 1 and not self.data.context
FlowEmpty(d) ==
    IF DictLen(d) = 1
    THEN IF DictHas(d, "context")
         THEN (IF Truthy(DictGet(d, "context", "None")) THEN "False" ELSE "True")
         ELSE "AttributeError"
    ELSE "False"

\* A get that drops its default: self.data.get(item)
FlowGetNoDefault(d, item, default) == DictGet(d, item, "None")

\* lines 195-196: self.data.get(item, default)
FlowGet(d, item, default) == DictGet(d, item, default)

\* lines 186-187: pickle.dumps(self.data)
SerializeToString(d) == Dumps(d)

\* lines 226-229: FlowState.__eq__, between two FlowStates
FlowEq(d, e) == SerializeToString(d) = SerializeToString(e)

\* FlowState(): lines 176-178
FlowNew ==
    /\ data = NewDict
    /\ inst = [n \in Names |-> Unset]
    /\ last = [op |-> "__init__", item |-> "-", value |-> "-", result |-> "-",
               held |-> FALSE, old |-> Unset]
    /\ stored = [n \in Names |-> Unset]
    /\ written = [n \in Names |-> FALSE]
    /\ given = [n \in Names |-> Unset]
    /\ fresh = TRUE
    /\ blob = NoBlob
    /\ copy = NewDict

\* ------------------------------------------------------ GrrMessage
\* The values handed to the constructor and to the payload setter. cls is the
\* name of the value's class, rdf whether it is an rdfvalue.RDFValue, truth
\* its bool(), has_priority whether it has an attribute priority, age its
\* _age, n what it holds. NoPayload is payload=None.
NoAge == "None"
NoPayload == [ cls |-> "NoneType", n |-> 0, rdf |-> FALSE, truth |-> FALSE,
               has_priority |-> FALSE, priority |-> 0, age |-> NoAge ]
Payloads ==
    { [ cls |-> "RDFInteger", n |-> 1, rdf |-> TRUE, truth |-> TRUE,
        has_priority |-> FALSE, priority |-> 0, age |-> "5" ],
      [ cls |-> "RDFString", n |-> 2, rdf |-> TRUE, truth |-> TRUE,
        has_priority |-> FALSE, priority |-> 0, age |-> NoAge ],
      [ cls |-> "Prioritized", n |-> 1, rdf |-> TRUE, truth |-> TRUE,
        has_priority |-> TRUE, priority |-> 7, age |-> "9" ],
      [ cls |-> "Prioritized", n |-> 0, rdf |-> TRUE, truth |-> FALSE,
        has_priority |-> TRUE, priority |-> 0, age |-> NoAge ],
      [ cls |-> "str", n |-> 1, rdf |-> FALSE, truth |-> TRUE,
        has_priority |-> FALSE, priority |-> 0, age |-> NoAge ],
      NoPayload }

\* self.classes: the names of the RDFValue classes
Classes == {"RDFString", "RDFInteger", "Prioritized"}

\* value.SerializeToString(): the bytes say what was serialized
Encode(value) == << value.cls, value.n >>
NoBytes == << >>

\* The fields after line 28 (super().__init__ with the initializer and the
\* keywords): a priority, a task_id or none (0), and either no payload fields
\* or those of a message received with a type name this process does not know.
CallerPriorities == {3, 8}
PresetIds == { Long(0), << 42, 0, 0, 0 >> }
Received ==
    { [ args |-> NoBytes, args_age |-> NoAge, args_rdf_name |-> "" ],
      [ args |-> << "Unknown", 1 >>, args_age |-> "5", args_rdf_name |-> "Unknown" ] }
Initialized ==
    { [ pc |-> "L30", priority |-> prio, task_id |-> id, args |-> r.args,
        args_age |-> r.args_age, args_rdf_name |-> r.args_rdf_name ] :
      prio \in CallerPriorities, id \in PresetIds, r \in Received }

\* A setter that checks the type after it has stored the bytes.
PayloadSetCheckLate(m, value) ==
    IF ~value.rdf
    THEN [ m |-> [m EXCEPT !.args = Encode(value)], raised |-> "RuntimeError" ]
    ELSE [ m |-> [m EXCEPT !.args = Encode(value),
                           !.args_age = IF value.age # NoAge THEN value.age ELSE @,
                           !.args_rdf_name = value.cls],
           raised |-> "-" ]

\* lines 79-92: the payload setter
PayloadSet(m, value) ==
    IF ~value.rdf
    THEN [ m |-> m, raised |-> "RuntimeError" ]
    ELSE [ m |-> [m EXCEPT !.args = Encode(value),
                           !.args_age = IF value.age # NoAge THEN value.age ELSE @,
                           !.args_rdf_name = value.cls],
           raised |-> "-" ]

\* A lookup without the default: self.classes[self.args_rdf_name]
ResultClassStrict(name) == IF name \in Classes THEN name ELSE "KeyError"

\* line 71: self.classes.get(self.args_rdf_name, rdfvalue.RDFString)
ResultClass(name) == IF name \in Classes THEN name ELSE "RDFString"

\* lines 67-77: the payload getter. Whether result.ParseFromString accepts
\* bytes that another class serialized is up to that class: strict says it
\* does not.
PayloadGet(m, strict) ==
    IF m.args_rdf_name = ""
    THEN [ kind |-> "None", cls |-> "NoneType", bytes |-> NoBytes, age |-> NoAge ]
    ELSE LET result_cls == ResultClass(m.args_rdf_name)
         IN  IF result_cls = "KeyError"
             THEN [ kind |-> "KeyError", cls |-> "NoneType", bytes |-> NoBytes,
                    age |-> NoAge ]
             ELSE IF strict /\ (m.args = NoBytes \/ m.args[1] # result_cls)
             THEN [ kind |-> "DecodeError", cls |-> result_cls, bytes |-> m.args,
                    age |-> m.args_age ]
             ELSE [ kind |-> "value", cls |-> result_cls, bytes |-> m.args,
                    age |-> m.args_age ]

\* lines 30-37: if payload: self.payload = payload, and its priority if it has one
MessageInit(m, payload) ==
    IF payload.truth
    THEN LET r == PayloadSet(m, payload)
         IN  IF r.raised # "-" THEN [ m |-> m, raised |-> r.raised ]
             ELSE [ m |-> [r.m EXCEPT !.priority = IF payload.has_priority
                                                   THEN payload.priority ELSE @],
                    raised |-> "-" ]
    ELSE [ m |-> m, raised |-> "-" ]

NoMessage == [ pc |-> "none", priority |-> 0, task_id |-> Long(0), args |-> NoBytes,
               args_age |-> NoAge, args_rdf_name |-> "" ]
NoResult == [ kind |-> "-", cls |-> "NoneType", bytes |-> NoBytes, age |-> NoAge ]
MessageNew ==
    /\ message = NoMessage
    /\ mlast = [ op |-> "-", given |-> NoMessage, value |-> NoPayload,
                 raised |-> "-", result |-> NoResult ]
    /\ assigned = NoPayload

\* ----------------------------------------------------- the allocator
\* The producers of the concurrent specifications, and the one of the sequential.
Producers == {1, 2}
Solo == {1}

\* utils.PRNG.GetUShort() returns an unsigned 16-bit number; the model draws
\* the least and the greatest.
UShorts == {0, Limb - 1}

\* Every 32-bit value is a counter a running process can hold (a step of 1 is
\* always possible); the model starts from the class's initial 0 and from the
\* two values next to the wraparound.
InitBases == { Long(0), << Limb - 2, Limb - 1, 0, 0 >>, << Limb - 1, Limb - 1, 0, 0 >> }

\* A wall clock whose low 29 bits are all ones: one more millisecond wraps the
\* identifier's time field to zero.
StartClock == << Limb - 1, 2^13 - 1, 384, 0 >>

\* What the clock may advance by in one step: 1 ms, or 2^29 ms.
ClockSteps == { Long(1), << 0, 2^13, 0, 0 >> }

\* self.priority, as far as this file constrains it: nothing here validates it.
\* The model draws the least, a middle and the greatest of the eight levels,
\* and the two values next to the range.
Priorities == {-1, 0, 3, 7, 8}

Idle == [ pc |-> "idle", kind |-> "none", priority |-> 0,
          random_number |-> 0, next_id_base |-> Long(0), id_base |-> Long(0),
          wake |-> Long(0), slept |-> FALSE, epoch |-> 0, order |-> 0,
          time_ms |-> Long(0), time_base |-> Long(0) ]

AllocInit(bases) ==
    /\ next_id_base \in bases
    /\ lock = 0
    /\ clock = StartClock
    /\ ticks = 0
    /\ th = [p \in Producers |-> Idle]
    /\ calls = 0
    /\ minted = << >>
    /\ wraps = 0
    /\ runs = 0
    /\ commits = << >>
    /\ FlowNew
    /\ MessageNew

\* ---------------------------------------------------------- actions
\* A message with priority prio calls GenerateTaskID (line 42).
Start(p, prios) ==
    /\ th[p].pc = "idle"
    /\ calls < MaxCalls
    /\ \E prio \in prios :
          th' = [th EXCEPT ![p] = [Idle EXCEPT !.pc = "L45", !.kind = "GrrMessage",
                                               !.priority = prio]]
    /\ calls' = calls + 1
    /\ UNCHANGED << next_id_base, lock, clock, ticks, minted, wraps, runs, commits >>
    /\ UNCHANGED << flowVars, msgVars >>

\* A legacy Task without an id starts to mint one (line 344): the same steps
\* on the same lock and counter (lines 345-354), under the same labels.
StartTask(p) ==
    /\ th[p].pc = "idle"
    /\ calls < MaxCalls
    /\ th' = [th EXCEPT ![p] = [Idle EXCEPT !.pc = "L45", !.kind = "Task"]]
    /\ calls' = calls + 1
    /\ UNCHANGED << next_id_base, lock, clock, ticks, minted, wraps, runs, commits >>
    /\ UNCHANGED << flowVars, msgVars >>

\* line 45: random_number = utils.PRNG.GetUShort() + 1
Draw(p) ==
    /\ th[p].pc = "L45"
    /\ \E r \in UShorts :
          th' = [th EXCEPT ![p].random_number = r + 1, ![p].pc = "L48"]
    /\ UNCHANGED << next_id_base, lock, clock, ticks, calls, minted, wraps, runs, commits >>
    /\ UNCHANGED << flowVars, msgVars >>

\* A with-block that excludes nobody.
LockNeverHeld(p) == TRUE

\* Whether producer p may enter the with-block of Task.lock.
LockFree(p) == lock = 0

\* line 48: with Task.lock (entry)
Acquire(p) ==
    /\ th[p].pc = "L48"
    /\ LockFree(p)
    /\ lock' = p
    /\ th' = [th EXCEPT ![p].pc = "L49"]
    /\ UNCHANGED << next_id_base, clock, ticks, calls, minted, wraps, runs, commits >>
    /\ UNCHANGED << flowVars, msgVars >>

\* line 49: next_id_base = Task.next_id_base
ReadBase(p) ==
    /\ th[p].pc = "L49"
    /\ th' = [th EXCEPT ![p].next_id_base = next_id_base, ![p].pc = "L51"]
    /\ UNCHANGED << next_id_base, lock, clock, ticks, calls, minted, wraps, runs, commits >>
    /\ UNCHANGED << flowVars, msgVars >>

\* line 51: (next_id_base + random_number) & 0xFFFFFFFF
NextBase(base, step) == LongAnd(LongAdd(base, Long(step)), Mask32)

\* Lines 51-52 with the test the other way round: id_base > next_id_base.
ComputeSleepUnwrapped(p) ==
    /\ th[p].pc = "L51"
    /\ LET b == NextBase(th[p].next_id_base, th[p].random_number)
       IN  th' = [th EXCEPT ![p].id_base = b,
                            ![p].pc = IF LongLess(th[p].next_id_base, b)
                                      THEN "L53" ELSE "L55"]
    /\ UNCHANGED << next_id_base, lock, clock, ticks, calls, minted, wraps, runs, commits >>
    /\ UNCHANGED << flowVars, msgVars >>

\* lines 51-52: id_base = ...; if id_base < next_id_base
Compute(p) ==
    /\ th[p].pc = "L51"
    /\ LET b == NextBase(th[p].next_id_base, th[p].random_number)
       IN  th' = [th EXCEPT ![p].id_base = b,
                            ![p].pc = IF LongLess(b, th[p].next_id_base)
                                      THEN "L53" ELSE "L55"]
    /\ UNCHANGED << next_id_base, lock, clock, ticks, calls, minted, wraps, runs, commits >>
    /\ UNCHANGED << flowVars, msgVars >>

\* line 53: time.sleep(0.001) starts; the caller keeps the lock while it sleeps
Sleep(p) ==
    /\ th[p].pc = "L53"
    /\ th' = [th EXCEPT ![p].wake = LongAdd(clock, Long(1)), ![p].slept = TRUE,
                        ![p].pc = "asleep"]
    /\ UNCHANGED << next_id_base, lock, clock, ticks, calls, minted, wraps, runs, commits >>
    /\ UNCHANGED << flowVars, msgVars >>

\* line 53: the sleep returns, not before a millisecond has passed
Wake(p) ==
    /\ th[p].pc = "asleep"
    /\ clock' = IF LongLess(clock, th[p].wake) THEN th[p].wake ELSE clock
    /\ th' = [th EXCEPT ![p].pc = "L55"]
    /\ UNCHANGED << next_id_base, lock, ticks, calls, minted, wraps, runs, commits >>
    /\ UNCHANGED << flowVars, msgVars >>

\* line 55: Task.next_id_base = id_base
Commit(p) ==
    /\ th[p].pc = "L55"
    /\ next_id_base' = th[p].id_base
    /\ wraps' = IF LongLess(th[p].id_base, next_id_base) THEN wraps + 1 ELSE wraps
    /\ th' = [th EXCEPT ![p].pc = "L56", ![p].epoch = wraps',
                        ![p].order = Len(commits) + 1]
    /\ commits' = Append(commits,
          [ producer |-> p, read |-> th[p].next_id_base,
            step |-> th[p].random_number, base |-> th[p].id_base,
            was |-> next_id_base, slept |-> th[p].slept,
            waited |-> ~LongLess(clock, th[p].wake) ])
    /\ UNCHANGED << lock, clock, ticks, calls, minted, runs >>
    /\ UNCHANGED << flowVars, msgVars >>

\* An end of the block that leaves Task.lock taken (an acquire() without its
\* release()).
ReleaseNever(p) ==
    /\ th[p].pc = "L56"
    /\ th' = [th EXCEPT ![p].pc = "L58"]
    /\ UNCHANGED << next_id_base, lock, clock, ticks, calls, minted, wraps, runs, commits >>
    /\ UNCHANGED << flowVars, msgVars >>

\* the end of the with-block: Task.lock is released
Release(p) ==
    /\ th[p].pc = "L56"
    /\ lock' = 0
    /\ th' = [th EXCEPT ![p].pc = "L58"]
    /\ UNCHANGED << next_id_base, clock, ticks, calls, minted, wraps, runs, commits >>
    /\ UNCHANGED << flowVars, msgVars >>

\* The time field left in the low bits: the shift by 32 forgotten.
TimeBaseUnshifted(now) == LongAnd(now, Mask29)

\* The time field masked to 30 bits instead of 29.
TimeBaseMask30(now) == LongShl(LongAnd(now, << Limb - 1, 2^14 - 1, 0, 0 >>), 32)

\* line 58: (long(time.time() * 1000) & 0x1FFFFFFF) << 32
TimeBase(now) == LongShl(LongAnd(now, Mask29), 32)

\* line 357: (long(time.time() * 1000) & 0xFFFFFFFF) << 32
LegacyTimeBase(now) == LongShl(LongAnd(now, Mask32), 32)

\* line 58 (line 357 in a Task): time_base = ...
ReadClock(p) ==
    /\ th[p].pc = "L58"
    /\ th' = [th EXCEPT ![p].time_ms = clock,
                        ![p].time_base = IF th[p].kind = "Task"
                                         THEN LegacyTimeBase(clock)
                                         ELSE TimeBase(clock),
                        ![p].pc = "L60"]
    /\ UNCHANGED << next_id_base, lock, clock, ticks, calls, minted, wraps, runs, commits >>
    /\ UNCHANGED << flowVars, msgVars >>

\* The priority itself as the prefix, not its complement.
PriorityPrefixPlain(priority) == priority

\* line 60: priority_prefix = self.max_priority - self.priority
PriorityPrefix(priority) == max_priority - priority

\* lines 62-63: task_id = time_base | id_base; task_id |= priority_prefix << 61
TaskId(priority, time_base, id_base) ==
    LongOr(LongOr(time_base, id_base), LongShl(Long(PriorityPrefix(priority)), 61))

\* line 359: self.id = time_base + id_base
LegacyId(time_base, id_base) == LongAdd(time_base, id_base)

\* lines 60-65 (line 359 in a Task): the identifier is put together and returned
Return(p) ==
    /\ th[p].pc = "L60"
    /\ minted' = Append(minted,
          [ producer |-> p, kind |-> th[p].kind, priority |-> th[p].priority,
            step |-> th[p].random_number, read |-> th[p].next_id_base,
            base |-> th[p].id_base, epoch |-> th[p].epoch,
            order |-> th[p].order, now |-> th[p].time_ms,
            id |-> IF th[p].kind = "Task"
                   THEN LegacyId(th[p].time_base, th[p].id_base)
                   ELSE TaskId(th[p].priority, th[p].time_base, th[p].id_base) ])
    /\ th' = [th EXCEPT ![p] = Idle]
    /\ UNCHANGED << next_id_base, lock, clock, ticks, calls, wraps, runs, commits >>
    /\ UNCHANGED << flowVars, msgVars >>

\* The wall clock advances.
Tick ==
    /\ ticks < MaxTicks
    /\ \E d \in ClockSteps : clock' = LongAdd(clock, d)
    /\ ticks' = ticks + 1
    /\ UNCHANGED << next_id_base, lock, th, calls, minted, wraps, runs, commits >>
    /\ UNCHANGED << flowVars, msgVars >>

\* 65535 calls of GenerateTaskID by producers the model does not follow, each
\* drawing the greatest step (lines 45-55, 65535 times): the counter advances
\* by 65535 * 65536 = 2^32 - 65536 and wraps around at most once; the call
\* that wraps it sleeps a millisecond (line 53) before it commits.
OtherCalls ==
    /\ lock = 0
    /\ runs < MaxRuns
    /\ LET n == LongAnd(LongAdd(next_id_base, << 0, Limb - 1, 0, 0 >>), Mask32)
           wrapped == LongLess(n, next_id_base)
       IN  /\ next_id_base' = n
           /\ wraps' = IF wrapped THEN wraps + 1 ELSE wraps
           /\ clock' = IF wrapped THEN LongAdd(clock, Long(1)) ELSE clock
    /\ runs' = runs + 1
    /\ UNCHANGED << lock, ticks, th, calls, minted, commits >>
    /\ UNCHANGED << flowVars, msgVars >>

\* One producer, every priority: GenerateTaskID as a sequential function of the
\* counter, the clock and the priority.
InitMint == AllocInit(InitBases)
NextMint ==
    \/ \E p \in Solo :
          \/ Start(p, Priorities)
          \/ Draw(p)
          \/ Acquire(p)
          \/ ReadBase(p)
          \/ Compute(p)
          \/ Sleep(p)
          \/ Wake(p)
          \/ Commit(p)
          \/ Release(p)
          \/ ReadClock(p)
          \/ Return(p)
    \/ Tick
SpecMint == InitMint /\ [][NextMint]_vars

\* Two producers at one priority, and long runs of calls by other producers.
CyclePriorities == {3}
InitCycle == AllocInit(InitBases)
NextCycle ==
    \/ \E p \in Producers :
          \/ Start(p, CyclePriorities)
          \/ Draw(p)
          \/ Acquire(p)
          \/ ReadBase(p)
          \/ Compute(p)
          \/ Sleep(p)
          \/ Wake(p)
          \/ Commit(p)
          \/ Release(p)
          \/ ReadClock(p)
          \/ Return(p)
    \/ OtherCalls
SpecCycle == InitCycle /\ [][NextCycle]_vars

\* Two producers, messages and legacy Tasks, on the one counter.
InitShare == AllocInit(InitBases)
NextShare ==
    \E p \in Producers :
        \/ Start(p, CyclePriorities)
        \/ StartTask(p)
        \/ Draw(p)
        \/ Acquire(p)
        \/ ReadBase(p)
        \/ Compute(p)
        \/ Sleep(p)
        \/ Wake(p)
        \/ Commit(p)
        \/ Release(p)
        \/ ReadClock(p)
        \/ Return(p)
SpecShare == InitShare /\ [][NextShare]_vars

\* The same producers under a fair scheduler: a thread that can take its next
\* step eventually takes it, the sleep returns, and a thread that finds the
\* lock free again and again eventually gets it.
Running(p) ==
    \/ Draw(p)
    \/ ReadBase(p)
    \/ Compute(p)
    \/ Sleep(p)
    \/ Wake(p)
    \/ Commit(p)
    \/ Release(p)
    \/ ReadClock(p)
    \/ Return(p)
Fairness ==
    \A p \in Producers : WF_vars(Running(p)) /\ SF_vars(Acquire(p))
\* The counter starts two below 2^32: the least step does not wrap it, the
\* greatest does.
InitLive == AllocInit({ << Limb - 2, Limb - 1, 0, 0 >> })
NextLive ==
    \E p \in Producers :
        \/ Start(p, CyclePriorities)
        \/ Acquire(p)
        \/ Running(p)
SpecLive == InitLive /\ [][NextLive]_vars /\ Fairness

\* Two producers at one priority while the clock advances.
InitOrder == InitLive
NextOrder ==
    \/ \E p \in Producers :
          \/ Start(p, CyclePriorities)
          \/ Acquire(p)
          \/ Running(p)
    \/ Tick
SpecOrder == InitOrder /\ [][NextOrder]_vars

\* ------------------------------------------- actions on a GrrMessage
\* GrrMessage(initializer, payload=payload, **kwarg): lines 27-39. The fields
\* after line 28 are m; the constructor raises what the payload setter raises,
\* returns when the message has a task_id, and else calls GenerateTaskID.
Construct(p, m, payload) ==
    /\ message.pc \in {"none", "ready", "failed"}
    /\ th[p].pc = "idle"
    /\ calls < MaxCalls
    /\ calls' = calls + 1
    /\ LET r == MessageInit(m, payload)
       IN  /\ mlast' = [ op |-> "__init__", given |-> m, value |-> payload,
                        raised |-> r.raised, result |-> NoResult ]
           /\ assigned' = IF payload.truth /\ r.raised = "-" THEN payload ELSE NoPayload
           /\ IF r.raised # "-"
              THEN /\ message' = [r.m EXCEPT !.pc = "failed"]
                   /\ th' = th
              ELSE IF r.m.task_id = Long(0)
              THEN /\ message' = [r.m EXCEPT !.pc = "L40"]
                   /\ th' = [th EXCEPT ![p] = [Idle EXCEPT !.pc = "L45",
                                                          !.kind = "GrrMessage",
                                                          !.priority = r.m.priority]]
              ELSE /\ message' = [r.m EXCEPT !.pc = "ready"]
                   /\ th' = th
    /\ UNCHANGED << next_id_base, lock, clock, ticks, minted, wraps, runs, commits >>
    /\ UNCHANGED flowVars

\* line 40: self.task_id = the identifier GenerateTaskID returned
AssignId(p) ==
    /\ message.pc = "L40"
    /\ th[p].pc = "idle"
    /\ message' = [message EXCEPT !.task_id = minted[Len(minted)].id, !.pc = "ready"]
    /\ UNCHANGED << mlast, assigned >>
    /\ UNCHANGED << allocVars, flowVars >>

\* message.payload = value: lines 79-92
SetPayload(value) ==
    /\ message.pc = "ready"
    /\ LET r == PayloadSet(message, value)
       IN  /\ message' = r.m
           /\ mlast' = [ op |-> "set", given |-> message, value |-> value,
                        raised |-> r.raised, result |-> NoResult ]
           /\ assigned' = IF r.raised = "-" THEN value ELSE assigned
    /\ UNCHANGED << allocVars, flowVars >>

\* message.payload: lines 67-77
GetPayload(strict) ==
    /\ message.pc = "ready"
    /\ mlast' = [ op |-> "get", given |-> message, value |-> NoPayload,
                 raised |-> "-", result |-> PayloadGet(message, strict) ]
    /\ UNCHANGED << message, assigned >>
    /\ UNCHANGED << allocVars, flowVars >>

\* Messages are made one after the other and their payloads set and read.
InitMessage == InitLive
NextMessage ==
    \/ \E p \in Solo :
          \/ \E m \in Initialized, payload \in Payloads : Construct(p, m, payload)
          \/ Acquire(p)
          \/ Running(p)
          \/ AssignId(p)
    \/ \E value \in Payloads : SetPayload(value)
    \/ \E strict \in BOOLEAN : GetPayload(strict)
SpecMessage == InitMessage /\ [][NextMessage]_vars

\* ------------------------------------------- actions on a FlowState
\* state.Register(item, value): lines 198-199
Register(item, value) ==
    /\ blob = NoBlob
    /\ data' = FlowRegister(data, item, value)
    /\ stored' = [stored EXCEPT ![item] = value]
    /\ written' = [written EXCEPT ![item] = FALSE]
    /\ given' = [given EXCEPT ![item] = value]
    /\ last' = [op |-> "Register", item |-> item, value |-> value, result |-> "-",
                held |-> written[item],
                old |-> DictGet(data, item, Unset)]
    /\ fresh' = FALSE
    /\ UNCHANGED << inst, blob, copy >>
    /\ UNCHANGED << allocVars, msgVars >>

\* state.<item> = value: lines 201-210
SetAttr(item, value) ==
    /\ blob = NoBlob
    /\ LET r == FlowSetAttr(data, inst, item, value)
       IN  /\ data' = r.data
           /\ inst' = r.inst
           /\ last' = [op |-> "Set", item |-> item, value |-> value,
                       result |-> r.took, held |-> FALSE, old |-> Unset]
           /\ stored' = IF r.took = "data"
                        THEN [stored EXCEPT ![item] = value] ELSE stored
           /\ written' = IF r.took = "data"
                         THEN [written EXCEPT ![item] = TRUE] ELSE written
           /\ given' = IF r.took = "AttributeError"
                       THEN given ELSE [given EXCEPT ![item] = value]
    /\ fresh' = FALSE
    /\ UNCHANGED << blob, copy >>
    /\ UNCHANGED << allocVars, msgVars >>

\* state.Empty(): lines 189-190
CallEmpty ==
    /\ blob = NoBlob
    /\ last' = [op |-> "Empty", item |-> "-", value |-> "-", result |-> FlowEmpty(data),
                held |-> FALSE, old |-> Unset]
    /\ UNCHANGED << data, inst, stored, written, given, fresh, blob, copy >>
    /\ UNCHANGED << allocVars, msgVars >>

\* state.get(item, default): lines 195-196
CallGet(item, default) ==
    /\ blob = NoBlob
    /\ last' = [op |-> "get", item |-> item, value |-> default,
                result |-> FlowGet(data, item, default), held |-> FALSE,
                old |-> Unset]
    /\ UNCHANGED << data, inst, stored, written, given, fresh, blob, copy >>
    /\ UNCHANGED << allocVars, msgVars >>

\* blob = state.SerializeToString(): lines 186-187
Serialize ==
    /\ blob = NoBlob
    /\ blob' = SerializeToString(data)
    /\ copy' = NewDict
    /\ last' = [op |-> "SerializeToString", item |-> "-", value |-> "-", result |-> "-",
                held |-> FALSE, old |-> Unset]
    /\ UNCHANGED << data, inst, stored, written, given, fresh >>
    /\ UNCHANGED << allocVars, msgVars >>

\* The strings handed to ParseFromString: the blob, the blob cut short, nothing.
Strings(b) == { b, SubSeq(b, 1, Len(b) - 1), << >> }

\* A ParseFromString that empties self.data before it tries to load.
FlowParseClearing(d, string) ==
    IF WellFormed(string)
    THEN [data |-> Loads(string), result |-> "-"]
    ELSE [data |-> NewDict, result |-> "DecodeError"]

\* lines 180-184: self.data = pickle.loads(string), or DecodeError
FlowParse(d, string) ==
    IF WellFormed(string)
    THEN [data |-> Loads(string), result |-> "-"]
    ELSE [data |-> d, result |-> "DecodeError"]

\* other.ParseFromString(string) on another FlowState, which may have parsed
\* a string before: lines 180-184
ParseFromString(string) ==
    /\ blob # NoBlob
    /\ last.op \in {"SerializeToString", "ParseFromString"}
    /\ LET r == FlowParse(copy, string)
       IN  /\ copy' = r.data
           /\ last' = [op |-> "ParseFromString", item |-> "-", value |-> "-",
                       result |-> r.result, held |-> FALSE, old |-> Unset]
    /\ UNCHANGED << data, inst, stored, written, given, fresh, blob >>
    /\ UNCHANGED << allocVars, msgVars >>

\* The flow resumes on the FlowState that was parsed (or on the first one, when
\* parsing failed); the blob and the other FlowState are dropped.
Resume ==
    /\ last.op = "ParseFromString"
    /\ data' = IF last.result = "-" THEN copy ELSE data
    /\ blob' = NoBlob
    /\ copy' = NewDict
    /\ last' = [op |-> "resume", item |-> "-", value |-> "-", result |-> "-",
                held |-> FALSE, old |-> Unset]
    /\ UNCHANGED << inst, stored, written, given, fresh >>
    /\ UNCHANGED << allocVars, msgVars >>

InitState == AllocInit({ Long(0) })
NextState ==
    \/ \E item \in Names, value \in Values : Register(item, value)
    \/ \E item \in Names, value \in Values : SetAttr(item, value)
    \/ CallEmpty
    \/ \E item \in Names, default \in Defaults : CallGet(item, default)
    \/ Serialize
    \/ \E string \in Strings(blob) : ParseFromString(string)
    \/ Resume
SpecState == InitState /\ [][NextState]_vars

\* ---------------------------------------------------------------------
\* C1: of two identifiers minted at valid priorities p1 < p2, the one minted
\* at p2 (the higher priority) is numerically smaller, whatever the two
\* timestamps and allocation bases are.
C1_HigherPrioritySortsFirst ==
    \A i, j \in DOMAIN minted :
        ( /\ minted[i].priority \in 0 .. max_priority
          /\ minted[j].priority \in 0 .. max_priority
          /\ minted[i].priority < minted[j].priority )
        => LongLess(minted[j].id, minted[i].id)

\* The higher-priority identifier was minted with the greatest time field and
\* the greatest base, the lower-priority one with a zero time field and base.
C1_Witness ==
    \E i, j \in DOMAIN minted :
        /\ minted[j].priority = 7 /\ minted[i].priority = 0
        /\ minted[j].now = StartClock
        /\ minted[j].base = Mask32
        /\ minted[i].now = LongAdd(StartClock, Long(1))
        /\ minted[i].base = Long(0)

C4_OutOfRangeRejected ==
    \A i \in DOMAIN minted : minted[i].priority \in 0 .. max_priority

Held == { n \in Names : stored[n] # Unset }

C6_RegisterKeepsWritten ==
    (last.op = "Register" /\ last.held) =>
        FlowGet(data, last.item, "0") = last.old

\* C6 (amended): Register(f, d) always stores d under f, also over a value
\* written by Set: after Register(f, d1); Set(f, v); Register(f, d2), get(f)
\* returns d2; the other fields keep their values.
C6_RegisterOverwrites ==
    last.op = "Register" =>
        /\ FlowGet(data, last.item, "0") = last.value
        /\ \A n \in Names \ {last.item} :
              FlowGet(data, n, "0") = (IF n \in Held THEN stored[n] ELSE "0")

\* A Register has just replaced a value that Set had written by another one.
C6_Witness ==
    /\ last.op = "Register"
    /\ last.held
    /\ last.old = "2"
    /\ last.value = "1"
    /\ FlowGet(data, last.item, "0") = "1"

\* C7 (as claimed): Empty() returns true exactly when the mapping holds one
\* entry and that entry is context, and false, without raising, otherwise.
C7_EmptyIffOnlyContext ==
    last.op = "Empty" =>
        last.result = (IF Held = {"context"} THEN "True" ELSE "False")

\* C8 (as claimed): before any Register or Set a FlowState holds exactly the
\* context entry, and Empty() returns true.
C8_NewHoldsContext ==
    (fresh /\ last.op = "Empty") =>
        /\ DictLen(data) = 1
        /\ DictHas(data, "context")
        /\ last.result = "True"

\* C8 (amended): before any Register or Set a FlowState holds no entry at
\* all, not even context, and Empty() returns false.
C8_NewHoldsNothing ==
    fresh =>
        /\ DictLen(data) = 0
        /\ \A n \in Names : ~DictHas(data, n)
        /\ last.op = "Empty" => last.result = "False"

\* Empty() has just been called on a FlowState nothing was registered in.
C8_Witness ==
    /\ fresh
    /\ last.op = "Empty"
    /\ last.result = "False"

\* C9 (as claimed): get(f, d) returns the value of the last Register(f, .) or
\* Set(f, .) that did not raise, and d when there was none.
C9_GetReturnsLastGiven ==
    last.op = "get" =>
        last.result = (IF given[last.item] = Unset THEN last.value
                       ELSE given[last.item])

\* C9 (amended): get(f, d) returns the value last stored in the mapping under
\* f (by Register, or by a Set of a name that is not a member of the class
\* or the instance) and d when the mapping has no f; it never raises.
C9_GetReturnsLastStored ==
    last.op = "get" =>
        last.result = (IF last.item \in Held THEN stored[last.item]
                       ELSE last.value)

\* Register(x, 1); Set(x, 2); get(x, 0) has just returned 2, and a get of an
\* absent field can return its default next.
C9_Witness ==
    /\ last.op = "get"
    /\ last.item = "client_id"
    /\ written["client_id"]
    /\ last.result = "2"
    /\ "context" \notin Held

\* C10 (as claimed): the FlowState that ParseFromString fills from the blob of
\* SerializeToString serializes to that same blob, and so compares equal.
C10_RoundTripIdentical ==
    (last.op = "ParseFromString" /\ last.result = "-") =>
        /\ SerializeToString(copy) = blob
        /\ FlowEq(copy, data)

\* C11: ParseFromString of a string that is not a complete pickle (the blob cut
\* short, the empty string) raises DecodeError, which is not the AttributeError
\* of an unregistered field, and the FlowState it was called on holds exactly
\* the mapping it held before; the FlowState that was serialized is untouched.
C11_MalformedLeavesMapping ==
    [][ \A string \in Strings(blob) \ {blob} :
          ParseFromString(string) =>
            /\ last'.result = "DecodeError"
            /\ last'.result # "AttributeError"
            /\ copy' = copy
            /\ data' = data ]_vars

\* A malformed string has just been refused by a FlowState that holds two
\* fields from an earlier ParseFromString.
C11_Witness ==
    /\ last.op = "ParseFromString"
    /\ last.result = "DecodeError"
    /\ DictLen(copy) = 2
    /\ DictGet(copy, "client_id", Unset) = "2"

\* ---------------------------------------------------------------------
\* The positions between the entry of the with-block and its end.
InLock == {"L49", "L51", "L53", "asleep", "L55", "L56"}

\* The positions at which a producer has read the counter and not yet written it.
ReadNotWritten == {"L51", "L53", "asleep", "L55"}

\* (base + step) mod 2^32 of a counter of two limbs
Wrapped32(base, step) ==
    LET n == Norm(<< base[1] + step, base[2], 0, 0 >>) IN << n[1], n[2], 0, 0 >>

RECURSIVE StepSum(_)
StepSum(log) == IF log = << >> THEN 0 ELSE Head(log).step + StepSum(Tail(log))

\* C17: messages and legacy Tasks take the same lock around the same counter:
\* only the holder of the lock is inside the with-block, the counter does not
\* change between a producer's read and its write, every write is (the base
\* read + the step) mod 2^32 with a step in 1..65536, every read sees the
\* write before it, and after n writes the counter is the first base read
\* plus the sum of the n steps, mod 2^32.
C17_CounterUpdateAtomic ==
    /\ \A p \in Producers :
          /\ th[p].pc \in InLock => lock = p
          /\ th[p].pc \in ReadNotWritten => next_id_base = th[p].next_id_base
    /\ \A i \in DOMAIN commits :
          /\ commits[i].step \in 1 .. Limb
          /\ commits[i].was = commits[i].read
          /\ commits[i].base = Wrapped32(commits[i].read, commits[i].step)
          /\ i > 1 => commits[i].read = commits[i - 1].base
    /\ commits # << >> =>
          /\ next_id_base = commits[Len(commits)].base
          /\ next_id_base = Wrapped32(commits[1].read, StepSum(commits))

\* A message and a legacy Task, of two producers, have both minted, one with
\* the least and one with the greatest step; the second write wrapped the
\* counter around.
C17_Witness ==
    /\ Len(minted) = 2
    /\ { minted[1].kind, minted[2].kind } = {"GrrMessage", "Task"}
    /\ minted[1].producer # minted[2].producer
    /\ LongLess(commits[2].base, commits[2].read)
    /\ commits[1].step = 1
    /\ commits[2].step = Limb

\* C18: a producer sleeps exactly when the base it computed is less than the
\* base it read; it sleeps inside the with-block, holding the lock, and the
\* counter still holds the old base while it sleeps; the wrapped base is
\* written only when at least a millisecond has passed since the sleep began.
C18_DelayOnlyOnWrap ==
    /\ \A p \in Producers :
          th[p].pc \in {"L53", "asleep"} =>
              /\ lock = p
              /\ LongLess(th[p].id_base, th[p].next_id_base)
              /\ next_id_base = th[p].next_id_base
              /\ next_id_base # th[p].id_base
    /\ \A p \in Producers :
          th[p].pc \in {"L55", "L56"} =>
              (th[p].slept <=> LongLess(th[p].id_base, th[p].next_id_base))
    /\ \A i \in DOMAIN commits :
          /\ commits[i].slept <=> LongLess(commits[i].base, commits[i].read)
          /\ commits[i].slept => commits[i].waited

\* The first write wrapped the counter and came after a sleep; the second did
\* not wrap and came without one.
C18_Witness ==
    /\ Len(commits) = 2
    /\ commits[1].slept
    /\ LongLess(commits[1].base, commits[1].read)
    /\ ~commits[2].slept
    /\ commits[1].producer # commits[2].producer

TimePeriod(now) == << now[2] \div 2^13, now[3], now[4] >>

\* Two identifiers of messages of one priority, with no wraparound of the
\* counter and none of the time field between them, i written before j.
Comparable(i, j) ==
    /\ minted[i].kind = "GrrMessage" /\ minted[j].kind = "GrrMessage"
    /\ minted[i].priority = minted[j].priority
    /\ minted[i].priority \in 0 .. max_priority
    /\ minted[i].epoch = minted[j].epoch
    /\ TimePeriod(minted[i].now) = TimePeriod(minted[j].now)
    /\ minted[i].order < minted[j].order

\* C20 (as claimed): of two such identifiers the one whose producer wrote the
\* counter first is the smaller.
C20_CommitOrderIsIdOrder ==
    \A i, j \in DOMAIN minted :
        Comparable(i, j) => LongLess(minted[i].id, minted[j].id)

\* C20 (amended): the identifiers are ordered by the millisecond each producer
\* read from the clock after it had released the lock; the order of the writes
\* of the counter decides only between two producers that read the same
\* millisecond.
C20_ClockThenCommitOrder ==
    \A i, j \in DOMAIN minted :
        Comparable(i, j) =>
            ( LongLess(minted[i].id, minted[j].id)
              <=> \/ LongLess(minted[i].now, minted[j].now)
                  \/ minted[i].now = minted[j].now )

\* The producer that wrote the counter first read the clock a millisecond
\* after the other one, and its identifier is the greater.
C20_Witness ==
    \E i, j \in DOMAIN minted :
        /\ Comparable(i, j)
        /\ minted[i].producer # minted[j].producer
        /\ minted[i].now = LongAdd(minted[j].now, Long(1))
        /\ LongLess(minted[j].id, minted[i].id)

\* ---------------------------------------------------------------------
\* C12 (as claimed): a message constructed with a payload that has a priority
\* has the payload's priority, whatever priority the caller gave; one
\* constructed with a payload without priority, or with none, keeps its own.
C12_PayloadPriorityWins ==
    (mlast.op = "__init__" /\ mlast.raised = "-") =>
        message.priority = (IF mlast.value.has_priority
                            THEN mlast.value.priority
                            ELSE mlast.given.priority)

\* Bits 63-61 of an identifier
PrefixBits(id) == (id[4] \div 2^13) % 8

\* C13 (as claimed): a message constructed without a task_id gets one whose
\* bits 63-61 are 7 minus the priority the message ends up with.
C13_PrefixIsFinalPriority ==
    (mlast.op = "__init__" /\ message.pc = "ready"
        /\ mlast.given.task_id = Long(0)) =>
        PrefixBits(message.task_id) = 7 - message.priority

\* C14: reading the payload never fails on the type name: without a name it
\* returns None, with the name of a known class it decodes with that class,
\* with any other name it decodes with RDFString.
C14_GetterNeverFailsOnName ==
    mlast.op = "get" =>
        LET name == mlast.given.args_rdf_name
            r == mlast.result
        IN  /\ r.kind \in {"None", "value", "DecodeError"}
            /\ name = "" <=> r.kind = "None"
            /\ name \in Classes => r.cls = name
            /\ (name # "" /\ name \notin Classes) => r.cls = "RDFString"
            /\ r.kind = "value" =>
                  r.bytes = mlast.given.args /\ r.age = mlast.given.args_age

\* The payload of a message with a type name no class has was read, and came
\* back as an RDFString.
C14_Witness ==
    /\ mlast.op = "get"
    /\ mlast.given.args_rdf_name = "Unknown"
    /\ mlast.result.kind = "value"
    /\ mlast.result.cls = "RDFString"
    /\ mlast.result.bytes = << "Unknown", 1 >>

\* C15: assigning a payload that is not an RDFValue raises RuntimeError and
\* leaves the bytes, the type name and the age of the message as they were.
C15_BadPayloadChangesNothing ==
    [][ \A value \in Payloads :
          (~value.rdf /\ SetPayload(value)) =>
              /\ mlast'.raised = "RuntimeError"
              /\ message'.args = message.args
              /\ message'.args_rdf_name = message.args_rdf_name
              /\ message'.args_age = message.args_age
              /\ message' = message ]_vars

\* A str has just been refused as the payload of a message that holds a
\* payload with an age.
C15_Witness ==
    /\ mlast.op = "set"
    /\ mlast.value.cls = "str"
    /\ mlast.raised = "RuntimeError"
    /\ message.args = << "Prioritized", 1 >>
    /\ message.args_age = "9"

\* C16 (as claimed): after assignments of payloads, reading the payload
\* returns a value of the class of the value assigned last, with its bytes
\* and its age, no age if it had none.
C16_FieldsOfLastPayload ==
    (mlast.op = "get" /\ assigned.rdf) =>
        /\ mlast.result.kind = "value"
        /\ mlast.result.cls = assigned.cls
        /\ mlast.result.bytes = Encode(assigned)
        /\ mlast.result.age = assigned.age

====
